---- MODULE Spec2Model ----
(***************************************************************************)
(* Model of the deploy worker of rise-server (deployer/deployer.go, Work). *)
(* Each job slot runs Work on a job payload; the store (deployments,       *)
(* projects, advisory project lock) is shared by all jobs.                 *)
(***************************************************************************)
EXTENDS Naturals, Integers, Sequences, FiniteSets, TLC

\* ---------------------------------------------------------------- bounds
NumJobs == 2        \* job slots that can run Work concurrently
MaxRuns == 2        \* total number of job deliveries

Jobs == 1..NumJobs

\* ------------------------------------------------------- the stored world
Projects == {1, 2}
Depls == {1, 2, 3, 4, 5}

\* deployments 1 and 2 belong to project 1, deployments 3 and 4 to project 2
ProjectOf(dep) == IF dep >= 3 THEN 2 ELSE 1

\* project.DomainNames: number of domains of a project
NumDomains(p) == IF p = 1 THEN 2 ELSE 1

\* proj.Watermark
Watermark(p) == p = 1

\* proj.MaxDeploysKept (0 = unlimited)
MaxDeploysKept(p) == IF p = 1 THEN 1 ELSE 0

StatePendingUpload == "pending_upload"
StateUploaded == "uploaded"
StatePendingDeploy == "pending_deploy"
StateDeployed == "deployed"
StateDeployFailed == "deploy_failed"

States == {StatePendingUpload, StateUploaded, StatePendingDeploy,
           StateDeployed, StateDeployFailed}

NoMessage == "none"
TimeoutMessage == "Timed out due to too many files"

\* results of Work
ErrProjectLocked == "project is locked"
ErrTimeout == "timeout"
errUnexpectedState == "unexpected state"
ErrDB == "db error"
ErrBundle == "bundle error"      \* temp file, S3.Download or gzip.NewReader
ErrLoop == "upload loop error"   \* the first error the goroutine sends
ErrJsenv == "jsenv error"
ErrMeta == "meta error"          \* DomainNames or a meta.json upload
ErrPublish == "publish error"
ErrCommit == "commit error"
Success == "nil"
Running == "running"

\* The archive behind every bundle: the entries tar.Next yields, in order.
\*   dir   - hdr.FileInfo().IsDir()
\*   valid - every path element is made of object-key safe characters
\*   ext   - filepath.Ext of the cleaned name
\*   size  - hdr.Size, in bytes
Entry(isDir, isValid, ext, size) ==
    [dir |-> isDir, valid |-> isValid, ext |-> ext, size |-> size]

Archive ==
    <<Entry(TRUE, TRUE, "", 0), Entry(FALSE, FALSE, ".css", 1),
      Entry(FALSE, TRUE, ".css", 1), Entry(FALSE, TRUE, ".html", 1)>>

\* The job payloads that are delivered: deployments of the bundle of
\* deployment 1, with or without the invalidation; republications of
\* deployment 2, and its deployment once more; no flag for deployment 3 and
\* skip_webroot_upload for deployment 4; a republication of deployment 5.
Payloads ==
    {pl \in [id : Depls, skipWebroot : BOOLEAN, skipInval : BOOLEAN] :
        /\ pl.id = 1 => ~pl.skipWebroot
        /\ pl.id = 2 => (pl.skipInval => pl.skipWebroot)
        /\ pl.id = 3 => ~pl.skipWebroot /\ ~pl.skipInval
        /\ pl.id = 4 => pl.skipWebroot /\ ~pl.skipInval
        /\ pl.id = 5 => pl.skipWebroot /\ ~pl.skipInval}

\* the rows at the start: the bundle of deployment 1 is ready, deployment 2
\* was deployed before and is the active one of project 1, deployment 3 is
\* uploaded, deployment 4 still awaits its upload, deployment 5 is the
\* deployed and active one of project 2
InitialState(dep) ==
    CASE dep = 1 -> StatePendingDeploy
      [] dep = 2 -> StateDeployed
      [] dep = 3 -> StateUploaded
      [] dep = 4 -> StatePendingUpload
      [] OTHER -> StateDeployed

InitialDeployedAt(dep) == IF InitialState(dep) = StateDeployed THEN 1 ELSE 0

InitialActive(p) == IF p = 1 THEN 2 ELSE 5

VARIABLES
    deplState,     \* deployments.state
    deployedAt,    \* deployments.deployed_at (0 = null, else the commit time)
    errorMessage,  \* deployments.error_message
    deleted,       \* deployments.deleted_at is set
    active,        \* projects.active_deployment_id (0 = null)
    locked,        \* projects.locked_at is set
    clock,         \* the time of the latest commit (source of deployed_at)
    runs,          \* number of job deliveries so far
    pc,            \* position of each job in Work ("idle": not in Work)
    d,             \* the job payload (messages.DeployJobData)
    depl,          \* the job's copy of the deployment row (line 86): Work
                   \* reads only its state
    gstate,        \* the upload goroutine of the job
    gpos,          \* entries the goroutine has read
    idx,           \* index of the meta.json upload loop
    events,        \* external calls of the job and its goroutine
    atLock,        \* stored rows seen when the job acquired the lock
    last,          \* the latest return of Work: deployment id and result
    abandoned,     \* the goroutines whose Work returned at the timeout
    posts,         \* POST /projects/:name/deployments requests handled
    request,       \* the latest request handled
    response,      \* and the response to it
    rows,          \* deployment rows the handler created
    uploads,       \* object-store uploads the handler made
    queue,         \* deploy jobs the handler enqueued
    hdr,           \* an archive entry given to the body of the upload loop
    watermark,     \* proj.Watermark of the project it belongs to
    routed         \* what the loop body did with it

store == <<deplState, deployedAt, errorMessage, deleted, active>>
ingress == <<posts, request, response, rows, uploads, queue>>
loopvars == <<hdr, watermark, routed>>
vars == <<deplState, deployedAt, errorMessage, deleted, active, locked, clock,
          runs, pc, d, depl, gstate, gpos, idx, events, atLock, last,
          abandoned, posts, request, response, rows, uploads, queue, hdr,
          watermark, routed>>

NoRequest == [project |-> 0, user |-> 0, multipart |-> FALSE, part |-> "",
              body |-> <<>>]
NoResponse == [status |-> 0, id |-> 0, state |-> ""]
NoPayload == [id |-> 0, skipWebroot |-> FALSE, skipInval |-> FALSE]
NoDepl == [state |-> ""]
NoRows == [state |-> "", deployedAt |-> 0, errorMessage |-> NoMessage, active |-> 0]

\* the rows of the job's deployment and project, as stored
Rows(dep) == [state |-> deplState[dep], deployedAt |-> deployedAt[dep],
              errorMessage |-> errorMessage[dep], active |-> active[ProjectOf(dep)]]

proj(j) == ProjectOf(d[j].id)

\* no entry has been given to the loop body
NoEntry ==
    /\ hdr = Archive[1]
    /\ watermark = FALSE
    /\ routed = ""

\* no request has been handled
NoPosts ==
    /\ posts = 0
    /\ request = NoRequest
    /\ response = NoResponse
    /\ rows = {}
    /\ uploads = <<>>
    /\ queue = <<>>

Init ==
    /\ deplState = [x \in Depls |-> InitialState(x)]
    /\ deployedAt = [x \in Depls |-> InitialDeployedAt(x)]
    /\ errorMessage = [x \in Depls |-> NoMessage]
    /\ deleted = [x \in Depls |-> FALSE]
    /\ active = [p \in Projects |-> InitialActive(p)]
    /\ locked = [p \in Projects |-> FALSE]
    /\ clock = 1
    /\ runs = 0
    /\ pc = [j \in Jobs |-> "idle"]
    /\ d = [j \in Jobs |-> NoPayload]
    /\ depl = [j \in Jobs |-> NoDepl]
    /\ gstate = [j \in Jobs |-> "none"]
    /\ gpos = [j \in Jobs |-> 0]
    /\ idx = [j \in Jobs |-> 0]
    /\ events = [j \in Jobs |-> <<>>]
    /\ atLock = [j \in Jobs |-> NoRows]
    /\ last = [id |-> 0, result |-> Running]
    /\ abandoned = {}
    /\ NoPosts
    /\ NoEntry

\* ------------------------------------------------------------ store calls

\* project.Lock: non-blocking test-and-set of the advisory lock
LockAcquired(p) == ~locked[p]

\* deployment.DeleteExceptLastN: the deployed, not yet deleted deployments of
\* project p that are older than the n most recent ones, given the rows the
\* transaction sees (st: states, at: deployed_at)
DeleteExceptLastN(st, at, p, n) ==
    LET live == {x \in Depls : ProjectOf(x) = p /\ st[x] = StateDeployed /\ ~deleted[x]}
    IN {x \in live : Cardinality({y \in live : at[y] > at[x]}) >= n}

\* -------------------------------------------------------------- the job

\* Abandon for a timeout that cancels the upload loop
AbandonCancels(j, g) == {}

\* what Work leaves behind when it returns while its goroutine is in state
\* g: a goroutine that still runs goes on from its entry with what its
\* closure captured, one that is sending its error stays blocked on errCh,
\* and one whose done or error was received has returned
Abandon(j, g) ==
    IF g = "running"
       THEN {[id |-> d[j].id, state |-> "running", pos |-> gpos[j], log |-> <<>>]}
       ELSE IF g = "sending"
               THEN {[id |-> d[j].id, state |-> "sending", pos |-> 0, log |-> <<>>]}
               ELSE {}

\* return from Work with res: the locals die and the deferred Unlock runs
\* (lines 105-109, its error is only logged) when the lock was acquired
Return(j, res, g, held, unlockOk) ==
    /\ pc' = [pc EXCEPT ![j] = "idle"]
    /\ last' = [id |-> d[j].id, result |-> res]
    /\ d' = [d EXCEPT ![j] = NoPayload]
    /\ depl' = [depl EXCEPT ![j] = NoDepl]
    /\ idx' = [idx EXCEPT ![j] = 0]
    /\ atLock' = [atLock EXCEPT ![j] = NoRows]
    /\ events' = [events EXCEPT ![j] = <<>>]
    /\ gstate' = [gstate EXCEPT ![j] = "none"]
    /\ gpos' = [gpos EXCEPT ![j] = 0]
    /\ abandoned' = abandoned \cup Abandon(j, g)
    /\ UNCHANGED <<ingress, loopvars>>
    /\ locked' = IF held /\ unlockOk THEN [locked EXCEPT ![proj(j)] = FALSE] ELSE locked

\* deferred Unlock and return, for a job that holds the lock
Exit(j, res) == \E unlockOk \in BOOLEAN : Return(j, res, gstate[j], TRUE, unlockOk)

\* carry on at the next statement, the loop index being i
Goto(j, label, i) ==
    /\ pc' = [pc EXCEPT ![j] = label]
    /\ idx' = [idx EXCEPT ![j] = i]
    /\ UNCHANGED <<d, depl, atLock, locked, gpos, last, abandoned, ingress, loopvars>>

\* the external call kind(n) of job j succeeded
Log(j, kind, n) == [events EXCEPT ![j] = Append(@, <<kind, n>>)]

\* no Work runs in job slot j
Free(j) == pc[j] = "idle"

\* a delivery is handled in slot j: one is left and, the slots being
\* interchangeable, j is the first free one
Delivered(j) ==
    /\ Free(j)
    /\ \A k \in Jobs : k < j => ~Free(k)
    /\ runs < MaxRuns

\* lines 75-94: decode the payload, load the deployment and its project
Start(j) ==
    /\ Delivered(j)
    /\ runs' = runs + 1
    /\ \E pl \in Payloads :
          /\ d' = [d EXCEPT ![j] = pl]
          /\ depl' = [depl EXCEPT ![j] = [state |-> deplState[pl.id]]]
    /\ pc' = [pc EXCEPT ![j] = "lock"]
    /\ UNCHANGED <<store, locked, clock, idx, atLock, gstate, gpos, events, last,
                   abandoned, ingress, loopvars>>

\* lines 87-94: the deployment or the project cannot be loaded
LoadFails(j) ==
    /\ Delivered(j)
    /\ runs' = runs + 1
    /\ Return(j, ErrDB, "none", FALSE, FALSE)
    /\ UNCHANGED <<store, clock>>

\* Lock with the test of acquired (lines 101-103) left out
LockIgnoresAcquired(j) ==
    /\ pc[j] = "lock"
    /\ \/ /\ locked' = [locked EXCEPT ![proj(j)] = TRUE]
          /\ pc' = [pc EXCEPT ![j] = "check"]
          /\ atLock' = [atLock EXCEPT ![j] = Rows(d[j].id)]
          /\ UNCHANGED <<d, depl, idx, events, gstate, gpos, last, abandoned, ingress, loopvars>>
       \/ /\ LockAcquired(proj(j))
          /\ Return(j, ErrDB, "none", FALSE, FALSE)
    /\ UNCHANGED <<store, clock, runs>>

\* Lock with the deferred Unlock installed before the test of acquired
LockUnlocksWhenRefused(j) ==
    /\ pc[j] = "lock"
    /\ \/ /\ LockAcquired(proj(j))
          /\ locked' = [locked EXCEPT ![proj(j)] = TRUE]
          /\ pc' = [pc EXCEPT ![j] = "check"]
          /\ atLock' = [atLock EXCEPT ![j] = Rows(d[j].id)]
          /\ UNCHANGED <<d, depl, idx, events, gstate, gpos, last, abandoned, ingress, loopvars>>
       \/ /\ LockAcquired(proj(j))
          /\ Return(j, ErrDB, "none", FALSE, FALSE)
       \/ /\ ~LockAcquired(proj(j))
          /\ Return(j, ErrProjectLocked, "none", TRUE, TRUE)
    /\ UNCHANGED <<store, clock, runs>>

\* lines 96-103: proj.Lock; its error is returned, and ErrProjectLocked
\* when the lock was not acquired
Lock(j) ==
    /\ pc[j] = "lock"
    /\ \/ /\ LockAcquired(proj(j))
          /\ locked' = [locked EXCEPT ![proj(j)] = TRUE]
          /\ pc' = [pc EXCEPT ![j] = "check"]
          /\ atLock' = [atLock EXCEPT ![j] = Rows(d[j].id)]
          /\ UNCHANGED <<d, depl, idx, events, gstate, gpos, last, abandoned, ingress, loopvars>>
       \/ /\ LockAcquired(proj(j))
          /\ Return(j, ErrDB, "none", FALSE, FALSE)
       \/ /\ ~LockAcquired(proj(j))
          /\ Return(j, ErrProjectLocked, "none", FALSE, FALSE)
    /\ UNCHANGED <<store, clock, runs>>

\* Rejected with the test of deployed outside the SkipWebrootUpload branch
RejectedDeployedAlways(state, skipWebroot) ==
    \/ state = StateUploaded
    \/ state = StatePendingUpload
    \/ state = StateDeployed

\* Rejected without the test of lines 119-122
RejectedNoDeployed(state, skipWebroot) ==
    \/ state = StateUploaded
    \/ state = StatePendingUpload

\* lines 111-122: the states Work refuses, decided on the loaded copy
Rejected(state, skipWebroot) ==
    \/ state = StateUploaded
    \/ state = StatePendingUpload
    \/ ~skipWebroot /\ state = StateDeployed

CheckState(j) ==
    /\ pc[j] = "check"
    /\ IF Rejected(depl[j].state, d[j].skipWebroot)
          THEN Exit(j, errUnexpectedState)
          ELSE /\ Goto(j, IF d[j].skipWebroot THEN "meta" ELSE "prepare", 0)
               /\ UNCHANGED <<events, gstate>>
    /\ UNCHANGED <<store, clock, runs>>

\* Prepare with jsenv.js uploaded before the goroutine is started
PrepareUploadsJsenv(j) ==
    /\ pc[j] = "prepare"
    /\ \/ Exit(j, ErrBundle)
       \/ /\ events' = [events EXCEPT ![j] = @ \o <<<<"download", 0>>, <<"jsenv", 0>>>>]
          /\ gstate' = [gstate EXCEPT ![j] = "running"]
          /\ Goto(j, "select", 0)
    /\ UNCHANGED <<store, clock, runs>>

\* lines 124-164: temp file, S3.Download, gzip.NewReader, start the goroutine
Prepare(j) ==
    /\ pc[j] = "prepare"
    /\ \/ Exit(j, ErrBundle)
       \/ /\ events' = Log(j, "download", 0)
          /\ gstate' = [gstate EXCEPT ![j] = "running"]
          /\ Goto(j, "select", 0)
    /\ UNCHANGED <<store, clock, runs>>

MaxFileSizeToWatermark == 5000000

\* mime.TypeByExtension: the media type, then ";" and each parameter
TypeByExtension(ext) ==
    CASE ext \in {".html", ".htm"} -> <<"text/html", ";", "charset=utf-8">>
      [] ext = ".css" -> <<"text/css", ";", "charset=utf-8">>
      [] ext = ".png" -> <<"image/png">>
      [] OTHER -> <<>>

\* strings.Index(contentType, ";"), counted from 1; 0 when there is none
Index(ct) ==
    IF \E i \in DOMAIN ct : ct[i] = ";"
       THEN CHOOSE i \in DOMAIN ct :
               ct[i] = ";" /\ \A k \in 1..(i - 1) : ct[k] # ";"
       ELSE 0

\* the content type as mime returns it, parameters kept
StripNothing(ct) == ct

\* lines 198-200: the parameters after ";" are cut off
StripParams(ct) == IF Index(ct) # 0 THEN SubSeq(ct, 1, Index(ct) - 1) ELSE ct

\* lines 197-200: the content type the entry is uploaded with
ContentType(e) == StripParams(TypeByExtension(e.ext))

\* lines 207-209: the test that sends the entry through injectWatermark
Injects(w, e) ==
    /\ w
    /\ ContentType(e) = <<"text/html">>
    /\ e.size <= MaxFileSizeToWatermark

\* lines 207-209: the entry goes through injectWatermark
Watermarked(p, e) == Injects(Watermark(p), e)

\* lines 175-223: what the loop body does with the entry e: "skip" is a
\* continue, "error" a failed S3.Upload, otherwise the upload it makes
Body(w, e) ==
    IF e.dir \/ ~e.valid
       THEN {"skip"}
       ELSE IF Injects(w, e)
               THEN {"skip", "entry watermarked", "error"}
               ELSE {"entry", "error"}

\* Iteration without the test of the file name (lines 181-194)
IterationKeepsAnyName(p, pos) ==
    LET Failed == [state |-> "sending", pos |-> pos, log |-> <<>>]
        Skipped == [state |-> "running", pos |-> pos + 1, log |-> <<>>]
        Uploaded(kind) == [state |-> "running", pos |-> pos + 1,
                           log |-> <<<<kind, pos + 1>>>>]
    IN IF pos = Len(Archive)
          THEN {[state |-> "closed", pos |-> pos, log |-> <<>>], Failed}
          ELSE LET e == Archive[pos + 1]
               IN IF e.dir
                     THEN {Skipped, Failed}
                     ELSE IF Watermarked(p, e)
                             THEN {Skipped, Uploaded("entry watermarked"), Failed}
                             ELSE {Uploaded("entry"), Failed}

\* lines 165-226: the outcomes of one iteration of the loop of a goroutine
\* of project p that has read pos entries: its state, the entries read and
\* the upload it made, if any
Iteration(p, pos) ==
    LET Failed == [state |-> "sending", pos |-> pos, log |-> <<>>]
        Skipped == [state |-> "running", pos |-> pos + 1, log |-> <<>>]
        Uploaded(kind) == [state |-> "running", pos |-> pos + 1,
                           log |-> <<<<kind, pos + 1>>>>]
    IN IF pos = Len(Archive)
          THEN {[state |-> "closed", pos |-> pos, log |-> <<>>], Failed}
          ELSE {Failed} \cup
               {CASE k = "skip" -> Skipped
                  [] k = "error" -> Failed
                  [] OTHER -> Uploaded(k) : k \in Body(Watermark(p), Archive[pos + 1])}

\* one iteration of the goroutine of job j, Work waiting in the select
Extract(j) ==
    /\ gstate[j] = "running"
    /\ \E o \in Iteration(proj(j), gpos[j]) :
          /\ gstate' = [gstate EXCEPT ![j] = o.state]
          /\ gpos' = [gpos EXCEPT ![j] = o.pos]
          /\ events' = [events EXCEPT ![j] = @ \o o.log]
    /\ UNCHANGED <<store, locked, clock, runs, pc, d, depl, idx, atLock, last,
                   abandoned, ingress, loopvars>>

\* one iteration of a goroutine whose Work has returned: it goes on, returns
\* at the end of the archive, or blocks sending an error nobody receives
ExtractAbandoned ==
    /\ \E g \in abandoned :
          /\ g.state = "running"
          /\ \E o \in Iteration(ProjectOf(g.id), g.pos) :
                abandoned' = (abandoned \ {g}) \cup
                    (IF o.state = "closed"
                        THEN {}
                        ELSE IF o.state = "sending"
                                THEN {[id |-> g.id, state |-> "sending",
                                       pos |-> 0, log |-> <<>>]}
                                ELSE {[id |-> g.id, state |-> "running",
                                       pos |-> o.pos, log |-> g.log \o o.log]})
    /\ UNCHANGED <<store, locked, clock, runs, pc, d, depl, gstate, gpos, idx,
                   events, atLock, last, ingress, loopvars>>

\* the timeout branch writing deployed
TimeoutStateDeployed == StateDeployed

\* line 236: the state the timeout branch writes
TimeoutState == StateDeployFailed

\* Select marking the deployment deploy_failed on an error of the loop too
SelectMarksFailedOnError(j) ==
    /\ pc[j] = "select"
    /\ \/ /\ gstate[j] = "closed"
          /\ Goto(j, "jsenv", 0)
          /\ UNCHANGED <<store, gstate, events>>
       \/ /\ gstate[j] = "sending"
          /\ deplState' = [deplState EXCEPT ![d[j].id] = TimeoutState]
          /\ Return(j, ErrLoop, "returned", TRUE, TRUE)
          /\ UNCHANGED <<deployedAt, errorMessage, deleted, active>>
       \/ /\ deplState' = [deplState EXCEPT ![d[j].id] = TimeoutState]
          /\ errorMessage' = [errorMessage EXCEPT ![d[j].id] = TimeoutMessage]
          /\ Exit(j, ErrTimeout)
          /\ UNCHANGED <<deployedAt, deleted, active>>
    /\ UNCHANGED <<clock, runs>>

\* lines 229-241: wait for done, the first error, or the timeout
Select(j) ==
    /\ pc[j] = "select"
    /\ \/ /\ gstate[j] = "closed"
          /\ Goto(j, "jsenv", 0)
          /\ UNCHANGED <<store, gstate, events>>
       \/ /\ gstate[j] = "sending"
          /\ \E unlockOk \in BOOLEAN : Return(j, ErrLoop, "returned", TRUE, unlockOk)
          /\ UNCHANGED store
       \/ /\ \/ /\ deplState' = [deplState EXCEPT ![d[j].id] = TimeoutState]
                /\ errorMessage' = [errorMessage EXCEPT ![d[j].id] = TimeoutMessage]
             \/ UNCHANGED <<deplState, errorMessage>>
          /\ Exit(j, ErrTimeout)
          /\ UNCHANGED <<deployedAt, deleted, active>>
    /\ UNCHANGED <<clock, runs>>

\* lines 243-255: decode the env vars and upload jsenv.js
Jsenv(j) ==
    /\ pc[j] = "jsenv"
    /\ \/ Exit(j, ErrJsenv)
       \/ /\ events' = Log(j, "jsenv", 0)
          /\ Goto(j, "meta", 0)
          /\ UNCHANGED gstate
    /\ UNCHANGED <<store, clock, runs>>

\* length of the marshalled meta.json (line 258)
MetaLen == 2

\* line 281: the offset of the reader when iteration i + 1 of the loop
\* begins: 0 for the new reader, its end once an upload has read it
ReaderOffset(i) == IF i = 0 THEN 0 ELSE MetaLen

\* the loop without the rewind
SeekNothing(off) == off

\* line 283: reader.Seek(0, 0)
Seek(off) == 0

\* line 284: the bytes the upload of iteration i + 1 reads from the reader
MetaBody(i) == MetaLen - Seek(ReaderOffset(i))

\* the upload carries the complete document, or a truncated one
MetaKind(i) == IF MetaBody(i) = MetaLen THEN "meta" ELSE "meta truncated"

\* Meta leaving the loop after the first domain
MetaFirstDomainOnly(j) ==
    /\ pc[j] = "meta"
    /\ \/ Exit(j, ErrMeta)
       \/ /\ events' = Log(j, "meta", idx[j] + 1)
          /\ Goto(j, "publish", 0)
          /\ UNCHANGED gstate
    /\ UNCHANGED <<store, clock, runs>>

\* lines 275-287: DomainNames, then one meta.json upload per domain
Meta(j) ==
    /\ pc[j] = "meta"
    /\ \/ Exit(j, ErrMeta)
       \/ /\ events' = Log(j, MetaKind(idx[j]), idx[j] + 1)
          /\ IF idx[j] + 1 = NumDomains(proj(j))
                THEN Goto(j, "publish", 0)
                ELSE Goto(j, "meta", idx[j] + 1)
          /\ UNCHANGED gstate
    /\ UNCHANGED <<store, clock, runs>>

\* lines 289-300: publish the invalidation unless SkipInvalidation
Publish(j) ==
    /\ pc[j] = "publish"
    /\ \/ /\ d[j].skipInval
          /\ Goto(j, "begin", 0)
          /\ UNCHANGED <<events, gstate>>
       \/ /\ ~d[j].skipInval
          /\ \/ Exit(j, ErrPublish)
             \/ /\ events' = Log(j, "publish", 0)
                /\ Goto(j, "begin", 0)
                /\ UNCHANGED gstate
    /\ UNCHANGED <<store, clock, runs>>

\* lines 302-306: db.Begin
Begin(j) ==
    /\ pc[j] = "begin"
    /\ \/ Exit(j, ErrDB)
       \/ /\ events' = Log(j, "begin", 0)
          /\ Goto(j, "commit", 0)
          /\ UNCHANGED gstate
    /\ UNCHANGED <<store, clock, runs>>

\* the update of line 312 keyed by depl.ID instead of proj.ID
ActiveProjectByDeplID(j) == IF d[j].id \in Projects THEN d[j].id ELSE proj(j)

\* line 312: the project whose active_deployment_id is updated
ActiveProject(j) == proj(j)

\* Commit whose UpdateState writes through db instead of tx: the rollback
\* does not undo it
CommitOnDB(j) ==
    /\ pc[j] = "commit"
    /\ \/ /\ Exit(j, ErrCommit)
          /\ UNCHANGED <<store, clock>>
       \/ /\ Exit(j, ErrCommit)
          /\ clock' = clock + 1
          /\ deplState' = [deplState EXCEPT ![d[j].id] = StateDeployed]
          /\ deployedAt' = [deployedAt EXCEPT ![d[j].id] = clock + 1]
          /\ UNCHANGED <<active, deleted, errorMessage>>
       \/ /\ clock' = clock + 1
          /\ deplState' = [deplState EXCEPT ![d[j].id] = StateDeployed]
          /\ deployedAt' = [deployedAt EXCEPT ![d[j].id] = clock + 1]
          /\ active' = [active EXCEPT ![ActiveProject(j)] = d[j].id]
          /\ deleted' = IF MaxDeploysKept(proj(j)) > 0
                           THEN [x \in Depls |-> deleted[x] \/
                                   x \in DeleteExceptLastN(deplState', deployedAt',
                                                  proj(j), MaxDeploysKept(proj(j)))]
                           ELSE deleted
          /\ Goto(j, "track", 0)
          /\ UNCHANGED <<errorMessage, events, gstate>>
    /\ UNCHANGED runs

\* lines 308-326: UpdateState(deployed), active_deployment_id,
\* DeleteExceptLastN and Commit; the deferred Rollback undoes a failed block
Commit(j) ==
    /\ pc[j] = "commit"
    /\ \/ /\ Exit(j, ErrCommit)
          /\ UNCHANGED <<store, clock>>
       \/ /\ clock' = clock + 1
          /\ deplState' = [deplState EXCEPT ![d[j].id] = StateDeployed]
          /\ deployedAt' = [deployedAt EXCEPT ![d[j].id] = clock + 1]
          /\ active' = [active EXCEPT ![ActiveProject(j)] = d[j].id]
          /\ deleted' = IF MaxDeploysKept(proj(j)) > 0
                           THEN [x \in Depls |-> deleted[x] \/
                                   x \in DeleteExceptLastN(deplState', deployedAt',
                                                  proj(j), MaxDeploysKept(proj(j)))]
                           ELSE deleted
          /\ Goto(j, "track", 0)
          /\ UNCHANGED <<errorMessage, events, gstate>>
    /\ UNCHANGED runs

\* lines 328-350: best-effort tracking, return nil
Track(j) ==
    /\ pc[j] = "track"
    /\ Exit(j, Success)
    /\ UNCHANGED <<store, clock, runs>>

Next ==
    \/ \E j \in Jobs :
        \/ Start(j)
        \/ LoadFails(j)
        \/ Lock(j)
        \/ CheckState(j)
        \/ Prepare(j)
        \/ Extract(j)
        \/ Select(j)
        \/ Jsenv(j)
        \/ Meta(j)
        \/ Publish(j)
        \/ Begin(j)
        \/ Commit(j)
        \/ Track(j)
    \/ ExtractAbandoned

Spec == Init /\ [][Next]_vars

\* The Go scheduler runs every goroutine that can run: a job in Work and an
\* abandoned upload goroutine take their next step when they have one.
LiveSpec == Spec /\ WF_vars(Next) /\ WF_vars(ExtractAbandoned)

\* ----------------------------------------------------------------- ingress
\* POST /projects/:name/deployments of the api server: the handler that
\* creates the deployments and enqueues the jobs that Work consumes.

MaxPosts == 2
MaxUploadSize == 2

Users == {1, 2}
Owner(p) == p
Prefixes == {"a1b2c3", "d4e5f6"}
Bodies == {<<1>>, <<2, 1>>, <<1, 2, 3>>}

\* a request of an authenticated user; project 0 is a name of no project
Requests == [project : Projects \cup {0}, user : Users, multipart : BOOLEAN,
             part : {"payload", "upload"}, body : Bodies]

worker == <<store, locked, clock, runs, pc, d, depl, gstate, gpos, idx, events,
            atLock, last, abandoned>>

\* the handler runs while the worker is anywhere: the project locks are
\* held or free
IngressInit ==
    /\ deplState = [x \in Depls |-> InitialState(x)]
    /\ deployedAt = [x \in Depls |-> InitialDeployedAt(x)]
    /\ errorMessage = [x \in Depls |-> NoMessage]
    /\ deleted = [x \in Depls |-> FALSE]
    /\ active = [p \in Projects |-> InitialActive(p)]
    /\ locked \in [Projects -> BOOLEAN]
    /\ clock = 1
    /\ runs = 0
    /\ pc = [j \in Jobs |-> "idle"]
    /\ d = [j \in Jobs |-> NoPayload]
    /\ depl = [j \in Jobs |-> NoDepl]
    /\ gstate = [j \in Jobs |-> "none"]
    /\ gpos = [j \in Jobs |-> 0]
    /\ idx = [j \in Jobs |-> 0]
    /\ events = [j \in Jobs |-> <<>>]
    /\ atLock = [j \in Jobs |-> NoRows]
    /\ last = [id |-> 0, result |-> Running]
    /\ abandoned = {}
    /\ NoPosts
    /\ NoEntry

\* the project of the request is not one of the user's
NotFound(req) == req.project \notin Projects \/ Owner(req.project) # req.user

\* Rejection that accepts a payload of any size
RejectionIgnoresSize(req) ==
    IF NotFound(req) THEN 404
    ELSE IF locked[req.project] THEN 423
    ELSE IF ~req.multipart THEN 400
    ELSE IF req.part # "payload" THEN 422
    ELSE 0

\* the status the request is rejected with, 0 when it is valid
Rejection(req) ==
    IF NotFound(req) THEN 404
    ELSE IF locked[req.project] THEN 423
    ELSE IF ~req.multipart THEN 400
    ELSE IF req.part # "payload" THEN 422
    ELSE IF Len(req.body) > MaxUploadSize THEN 400
    ELSE 0

\* the id the database gives the next deployment row
NextID == Cardinality(Depls) + Cardinality(rows) + 1

\* "deployments/<prefix>-<id>/raw-bundle.tar.gz"
BundleKey(prefix, id) == <<"deployments", prefix, id, "raw-bundle.tar.gz">>

BundleACLPublic == "public-read"

BundleACL == "private"

NewJob(id) == [id |-> id, skipWebroot |-> FALSE, skipInval |-> FALSE]

\* a request is refused
Reject ==
    /\ posts < MaxPosts
    /\ \E req \in Requests :
          /\ Rejection(req) # 0
          /\ request' = req
          /\ response' = [status |-> Rejection(req), id |-> 0, state |-> ""]
    /\ posts' = posts + 1
    /\ UNCHANGED <<worker, rows, uploads, queue, loopvars>>

\* a request is accepted: row, bundle, job and 202
Accept ==
    /\ posts < MaxPosts
    /\ \E req \in Requests, prefix \in Prefixes :
          /\ Rejection(req) = 0
          /\ request' = req
          /\ rows' = rows \cup {[id |-> NextID, project |-> req.project,
                                 user |-> req.user, state |-> StatePendingDeploy,
                                 prefix |-> prefix]}
          /\ uploads' = Append(uploads, [key |-> BundleKey(prefix, NextID),
                                         contentType |-> "", acl |-> BundleACL,
                                         content |-> req.body])
          /\ queue' = Append(queue, NewJob(NextID))
          /\ response' = [status |-> 202, id |-> NextID,
                          state |-> StatePendingDeploy]
    /\ posts' = posts + 1
    /\ UNCHANGED <<worker, loopvars>>

IngressNext ==
    \/ Reject
    \/ Accept

IngressSpec == IngressInit /\ [][IngressNext]_vars

\* --------------------------------------------------------------- loop body
\* The body of the upload loop (lines 175-223) on any entry of any project.

Exts == {".html", ".htm", ".css", ".png", ""}
Sizes == {1, MaxFileSizeToWatermark, MaxFileSizeToWatermark + 1, 6000000}
Headers == {Entry(isDir, isValid, ext, size) :
               isDir \in BOOLEAN, isValid \in BOOLEAN, ext \in Exts, size \in Sizes}

BodyInit ==
    /\ deplState = [x \in Depls |-> InitialState(x)]
    /\ deployedAt = [x \in Depls |-> InitialDeployedAt(x)]
    /\ errorMessage = [x \in Depls |-> NoMessage]
    /\ deleted = [x \in Depls |-> FALSE]
    /\ active = [p \in Projects |-> InitialActive(p)]
    /\ locked = [p \in Projects |-> FALSE]
    /\ clock = 1
    /\ runs = 0
    /\ pc = [j \in Jobs |-> "idle"]
    /\ d = [j \in Jobs |-> NoPayload]
    /\ depl = [j \in Jobs |-> NoDepl]
    /\ gstate = [j \in Jobs |-> "none"]
    /\ gpos = [j \in Jobs |-> 0]
    /\ idx = [j \in Jobs |-> 0]
    /\ events = [j \in Jobs |-> <<>>]
    /\ atLock = [j \in Jobs |-> NoRows]
    /\ last = [id |-> 0, result |-> Running]
    /\ abandoned = {}
    /\ NoPosts
    /\ hdr \in Headers
    /\ watermark \in BOOLEAN
    /\ routed = ""

\* the loop body runs on the entry
RunBody ==
    /\ routed = ""
    /\ routed' \in Body(watermark, hdr)
    /\ UNCHANGED <<worker, ingress, hdr, watermark>>

BodyNext == RunBody

BodySpec == BodyInit /\ [][BodyNext]_vars

\* ------------------------------------------------------------- properties

\* the job is between a successful Lock and the return that unlocks
Holding(j) == pc[j] \in {"check", "prepare", "select", "jsenv", "meta",
                         "publish", "begin", "commit", "track"}

\* job j returns res in this step
Returns(j, res) ==
    pc[j] # "idle" /\ pc'[j] = "idle" /\ last'.result = res

\* C1: two jobs on the same project are never both between a successful
\* Lock and the Unlock, and a job that calls Lock while another job holds the
\* lock of its project returns ErrProjectLocked without proceeding.
C1_OneHolder ==
    /\ [](\A j, k \in Jobs : j # k /\ Holding(j) /\ Holding(k) => proj(j) # proj(k))
    /\ [][\A j \in Jobs :
            pc[j] = "lock" /\ pc'[j] # "lock"
            /\ (\E k \in Jobs : k # j /\ Holding(k) /\ proj(k) = proj(j))
            => Returns(j, ErrProjectLocked)]_vars

C1_Contended ==
    \E j \in Jobs :
        /\ Holding(j) /\ pc[j] # "check"
        /\ last.result = ErrProjectLocked
        /\ last.id # 0 /\ ProjectOf(last.id) = proj(j)

\* C2: once the stored state of a deployment is deployed, no step changes it.
C2_DeployedNeverRegresses ==
    [][\A x \in Depls : deplState[x] = StateDeployed => deplState'[x] = StateDeployed]_vars

\* C3: a project's active_deployment_id is null or references a deployment
\* of that project whose stored state is deployed.
C3_ActiveIsDeployed ==
    \A p \in Projects :
        active[p] # 0 => ProjectOf(active[p]) = p /\ deplState[active[p]] = StateDeployed

\* the step writes the state of deployment x
WritesState(x) ==
    \/ deplState'[x] # deplState[x]
    \/ deployedAt'[x] # deployedAt[x]
    \/ errorMessage'[x] # errorMessage[x]

C5_LockNeverLeftHeld ==
    \A p \in Projects : locked[p] => \E j \in Jobs : Holding(j) /\ proj(j) = p

\* C6: when a job returns nil the deployment is stored as deployed, its
\* deployed_at is set and the project's active_deployment_id is its id.
C6_SuccessPostcondition ==
    [][\A j \in Jobs :
          Returns(j, Success) =>
             /\ deplState'[d[j].id] = StateDeployed
             /\ deployedAt'[d[j].id] # 0
             /\ active'[proj(j)] = d[j].id]_vars

C6_Succeeded ==
    /\ last.result = Success /\ last.id = 1
    /\ deplState[1] = StateDeployed /\ deployedAt[1] # 0 /\ active[1] = 1

\* C7: when a job returns ErrTimeout the deployment is stored as
\* deploy_failed with the timeout message and the project lock is free.
C7_TimeoutPostcondition ==
    [][\A j \in Jobs :
          Returns(j, ErrTimeout) =>
             /\ deplState'[d[j].id] = StateDeployFailed
             /\ errorMessage'[d[j].id] = TimeoutMessage
             /\ ~locked'[proj(j)]]_vars

\* the states the precondition of section 4.6 has Work refuse
C8_Refused(skipWebroot) ==
    IF skipWebroot THEN {StateUploaded, StatePendingUpload}
                   ELSE {StateUploaded, StatePendingUpload, StateDeployed}

\* C8: Work leaves the precondition with the unexpected-state error exactly
\* when the state of the deployment it loaded is one the precondition
\* refuses for its skip_webroot_upload; the rejected job has made no external
\* call and leaves the rows of the deployment and the project as they were.
C8_Precondition ==
    [][\A j \in Jobs :
          /\ pc[j] = "check" /\ pc'[j] # "check" =>
                (depl[j].state \in C8_Refused(d[j].skipWebroot)
                    <=> Returns(j, errUnexpectedState))
          /\ Returns(j, errUnexpectedState) =>
                /\ pc[j] = "check"
                /\ events[j] = <<>> /\ events'[j] = <<>>
                /\ gstate[j] = "none" /\ gstate'[j] = "none"
                /\ store' = store
                /\ Rows(d[j].id) = atLock[j]]_vars

C8_RejectedDeployed ==
    /\ last.result = errUnexpectedState
    /\ ProjectOf(last.id) = 1 /\ deplState[last.id] = StateDeployed

\* the errors raised before the commit other than the timeout
PreCommitErrors == {ErrBundle, ErrLoop, ErrJsenv, ErrMeta, ErrPublish}

\* C9: when a job returns a non-timeout error raised before the commit, the
\* state, deployed_at and error_message of the deployment and the project's
\* active_deployment_id are what they were when the job took the lock (it
\* only reads before that).
C9_ErrorLeavesRows ==
    [][\A j \in Jobs : \A res \in PreCommitErrors :
          Returns(j, res) =>
             /\ store' = store
             /\ Rows(d[j].id) = atLock[j]]_vars

\* a job fails at the publish after another job deployed deployment 1
C9_LateError ==
    /\ last.result = ErrPublish
    /\ deplState[1] = StateDeployed /\ active[1] = 1

\* the kinds of logged calls
IsEntry(e) == e[1] \in {"entry", "entry watermarked"}
IsUpload(e) == IsEntry(e) \/ e[1] \in {"jsenv", "meta"}

\* in the log ev, the call at position a comes after every upload of the
\* job: jsenv.js if the webroot is uploaded, one meta.json per domain, and no
\* upload follows it
AfterAllUploads(j, ev, a) ==
    /\ ~d[j].skipWebroot => \E b \in 1..(a - 1) : ev[b][1] = "jsenv"
    /\ \A dom \in 1..NumDomains(proj(j)) : \E b \in 1..(a - 1) : ev[b] = <<"meta", dom>>
    /\ \A b \in (a + 1)..Len(ev) : ~IsUpload(ev[b])

\* the per-entry loop of job j has completed
LoopCompleted(j) == gstate[j] = "closed" /\ gpos[j] = Len(Archive)

\* the entries of the log ev were uploaded in extraction order
EntriesInOrder(ev) ==
    \A a, b \in DOMAIN ev :
        a < b /\ IsEntry(ev[a]) /\ IsEntry(ev[b]) => ev[a][2] < ev[b][2]

\* what C10 states of every job that runs the per-entry loop
EntriesThenJsenvAndMeta(j, ev) ==
    /\ EntriesInOrder(ev)
    /\ \A a \in DOMAIN ev :
          ev[a][1] \in {"jsenv", "meta"} =>
             /\ ~d[j].skipWebroot => LoopCompleted(j)
             /\ \A b \in (a + 1)..Len(ev) : ~IsEntry(ev[b])
    /\ \A a \in DOMAIN ev : ev[a][1] = "publish" => AfterAllUploads(j, ev, a)

\* C10 as claimed: entries are uploaded in extraction order, jsenv.js and
\* meta.json only after the loop has completed, the invalidation is published
\* only after all uploads, and the commit transaction is begun only after the
\* invalidation has been published.
C10_PhasesOrdered ==
    /\ \A g \in abandoned : EntriesInOrder(g.log)
    /\ \A j \in Jobs :
        /\ EntriesThenJsenvAndMeta(j, events[j])
        /\ \A a \in DOMAIN events[j] :
              events[j][a][1] = "begin" =>
                 \E b \in 1..(a - 1) : events[j][b][1] = "publish"

\* C10 as amended: entries are uploaded in extraction order; jsenv.js (only
\* when skip_webroot_upload is false) and meta.json are uploaded after the
\* loop has completed, when there is a loop; the invalidation is published
\* only after all uploads; the commit transaction is begun after the
\* invalidation has been published or, when skip_invalidation is true, after
\* all uploads without any publish.
C10_PhasesOrderedUnlessSkipped ==
    /\ \A g \in abandoned : EntriesInOrder(g.log)
    /\ \A j \in Jobs :
        /\ EntriesThenJsenvAndMeta(j, events[j])
        /\ \A a \in DOMAIN events[j] :
              /\ events[j][a][1] \in {"download", "jsenv"} \/ IsEntry(events[j][a])
                    => ~d[j].skipWebroot
              /\ events[j][a][1] = "publish" => ~d[j].skipInval
              /\ events[j][a][1] = "begin" =>
                    /\ AfterAllUploads(j, events[j], a)
                    /\ ~d[j].skipInval => events[j][a - 1][1] = "publish"

\* a job that uploaded two entries, skipped the invalidation and began the
\* commit transaction
C10_BegunWithoutPublish ==
    \E j \in Jobs :
        /\ pc[j] = "commit" /\ d[j].skipInval /\ ~d[j].skipWebroot
        /\ \E a, b \in DOMAIN events[j] :
              a < b /\ IsEntry(events[j][a]) /\ IsEntry(events[j][b])

\* C11: a job that finds the lock of its project taken returns
\* ErrProjectLocked, and a job that returns ErrProjectLocked has had no
\* effect: it made no download, upload or publish and started no goroutine,
\* it leaves every stored row as it was, and it does not unlock, so the lock
\* stays with its holder, which goes on undisturbed.
C11_LockedHasNoEffect ==
    [][\A j \in Jobs :
          /\ pc[j] = "lock" /\ pc'[j] # "lock" /\ ~LockAcquired(proj(j))
                => Returns(j, ErrProjectLocked)
          /\ Returns(j, ErrProjectLocked) =>
                /\ pc[j] = "lock" /\ ~LockAcquired(proj(j))
                /\ events[j] = <<>> /\ gstate[j] = "none"
                /\ store' = store
                /\ locked' = locked
                /\ abandoned' = abandoned
                /\ \A k \in Jobs \ {j} :
                      /\ pc'[k] = pc[k] /\ events'[k] = events[k]
                      /\ gstate'[k] = gstate[k] /\ atLock'[k] = atLock[k]]_vars

\* a job was refused the lock, and the holder has committed since and still
\* holds the lock
C11_HolderCommitted ==
    \E j \in Jobs :
        /\ pc[j] = "track" /\ locked[proj(j)]
        /\ last.result = ErrProjectLocked
        /\ last.id # 0 /\ ProjectOf(last.id) = proj(j)

\* the calls that follow the select of lines 229-241
IsLatePhase(e) == e[1] \in {"jsenv", "meta", "publish", "begin"}

\* C12: a job that returns ErrTimeout returns from the select: it has
\* uploaded neither jsenv.js nor any meta.json, published no invalidation and
\* begun no transaction, and the project's active_deployment_id is what it
\* was when the job took the lock.
C12_TimeoutBeforeLatePhases ==
    [][\A j \in Jobs :
          Returns(j, ErrTimeout) =>
             /\ pc[j] = "select"
             /\ \A a \in DOMAIN events[j] : ~IsLatePhase(events[j][a])
             /\ active' = active
             /\ active'[proj(j)] = atLock[j].active]_vars

\* the job of deployment 1 timed out and deployment 2 is still the active one
C12_TimedOut ==
    /\ last.result = ErrTimeout /\ last.id = 1
    /\ deplState[1] = StateDeployFailed
    /\ active[1] = InitialActive(1)

\* the number of uploads of archive entry i in the log ev
Uploads(ev, i) == Cardinality({a \in DOMAIN ev : IsEntry(ev[a]) /\ ev[a][2] = i})

\* the entry is not a directory and its name has only object-key safe parts
Eligible(e) == ~e.dir /\ e.valid

\* C13 as claimed: a successful job that uploads the webroot has made exactly
\* one upload for every eligible entry and none for any other entry.
C13_OneUploadPerEligible ==
    [][\A j \in Jobs :
          Returns(j, Success) /\ ~d[j].skipWebroot =>
             \A i \in DOMAIN Archive :
                Uploads(events[j], i) = IF Eligible(Archive[i]) THEN 1 ELSE 0]_vars

\* C13 as amended: a successful job that uploads the webroot has made no
\* upload for a directory or an entry with an unsafe name, exactly one for an
\* eligible entry that is not routed through the watermark injector, and at
\* most one, of the injected content, for an eligible entry that is: the
\* entry whose injection fails is skipped as well, and no skip fails the job.
C13_OneUploadUnlessInjectionFails ==
    [][\A j \in Jobs :
          Returns(j, Success) /\ ~d[j].skipWebroot =>
             \A i \in DOMAIN Archive :
                IF ~Eligible(Archive[i])
                   THEN Uploads(events[j], i) = 0
                   ELSE IF Watermarked(proj(j), Archive[i])
                           THEN /\ Uploads(events[j], i) <= 1
                                /\ <<"entry", i>> \notin
                                      {events[j][a] : a \in DOMAIN events[j]}
                           ELSE /\ Uploads(events[j], i) = 1
                                /\ <<"entry watermarked", i>> \notin
                                      {events[j][a] : a \in DOMAIN events[j]}]_vars

\* a job has committed after it uploaded the plain file and skipped the
\* directory, the unsafe name and the page whose injection failed
C13_CommittedWithSkips ==
    \E j \in Jobs :
        /\ pc[j] = "track" /\ ~d[j].skipWebroot
        /\ Uploads(events[j], 3) = 1
        /\ \A i \in {1, 2, 4} : Uploads(events[j], i) = 0

\* the meta.json uploads for domain dom in the log ev, complete or not
MetaUploads(ev, dom) ==
    {a \in DOMAIN ev : ev[a][1] \in {"meta", "meta truncated"} /\ ev[a][2] = dom}

\* C14: a successful job has made exactly one meta.json upload for every
\* domain of the project and none for anything else, and every one of them
\* carries the complete document.
C14_OneCompleteMetaPerDomain ==
    [][\A j \in Jobs :
          Returns(j, Success) =>
             /\ \A dom \in 1..NumDomains(proj(j)) :
                   /\ Cardinality(MetaUploads(events[j], dom)) = 1
                   /\ \A a \in MetaUploads(events[j], dom) : events[j][a][1] = "meta"
             /\ \A a \in DOMAIN events[j] :
                   events[j][a][1] \in {"meta", "meta truncated"}
                      => events[j][a][2] \in 1..NumDomains(proj(j))]_vars

\* a job of a project with two domains has committed after both uploads
C14_BothDomainsUploaded ==
    \E j \in Jobs :
        /\ pc[j] = "track" /\ NumDomains(proj(j)) = 2
        /\ \A dom \in {1, 2} : Cardinality(MetaUploads(events[j], dom)) = 1

\* the request is one of those the handler must refuse: the project is not
\* found or is locked, the request is not multipart, carries no part named
\* payload, or its body is larger than MaxUploadSize
MustRefuse(req) ==
    \/ req.project \notin Projects
    \/ Owner(req.project) # req.user
    \/ locked[req.project]
    \/ ~req.multipart
    \/ req.part # "payload"
    \/ Len(req.body) > MaxUploadSize

\* C15: a POST /projects/:name/deployments that is rejected (not multipart,
\* no payload part, body larger than MaxUploadSize, project not found or
\* project locked) has no side effects: it is not answered 202, no object is
\* uploaded, no deployment row is created and no job is enqueued.
C15_RejectedHasNoEffect ==
    [][posts' = posts + 1 /\ MustRefuse(request')
          => /\ response'.status \in {400, 404, 422, 423}
             /\ uploads' = uploads
             /\ rows' = rows
             /\ queue' = queue]_vars

\* an oversized payload is refused after another request was accepted
C15_RefusedAfterAccepted ==
    /\ posts = 2
    /\ Len(request.body) > MaxUploadSize
    /\ request.multipart /\ request.part = "payload"
    /\ response.status = 400
    /\ Len(uploads) = 1 /\ Cardinality(rows) = 1

\* C16: a valid POST /projects/:name/deployments makes exactly one upload
\* (key deployments/<prefix>-<id>/raw-bundle.tar.gz, ACL private, the payload
\* as content), creates exactly one deployment row of the project and the
\* user, with a fresh id, state pending_deploy and a non-empty prefix,
\* enqueues one job for that id with both skip flags false, and answers 202
\* with the id and pending_deploy.
C16_ValidPostDeploys ==
    [][posts' = posts + 1 /\ ~MustRefuse(request')
          => \E row \in rows' :
                /\ row \notin rows /\ rows' = rows \cup {row}
                /\ row.id \notin Depls /\ \A r \in rows : r.id # row.id
                /\ row.project = request'.project /\ row.user = request'.user
                /\ row.state = StatePendingDeploy /\ row.prefix # ""
                /\ uploads' = Append(uploads,
                       [key |-> <<"deployments", row.prefix, row.id,
                                  "raw-bundle.tar.gz">>,
                        contentType |-> "", acl |-> "private",
                        content |-> request'.body])
                /\ queue' = Append(queue, [id |-> row.id, skipWebroot |-> FALSE,
                                           skipInval |-> FALSE])
                /\ response' = [status |-> 202, id |-> row.id,
                                state |-> StatePendingDeploy]]_vars

\* two requests were accepted, the second for project 2
C16_TwoAccepted ==
    /\ posts = 2
    /\ response.status = 202 /\ request.project = 2
    /\ Len(uploads) = 2 /\ uploads[1].key # uploads[2].key
    /\ Cardinality(rows) = 2 /\ Len(queue) = 2

\* job j republishes: it skips the webroot upload and loaded a deployed row
Republish(j) == d[j].skipWebroot /\ depl[j].state = StateDeployed

\* C17: a job with skip_webroot_upload on a deployed deployment is accepted:
\* the state check sends it straight to the meta.json uploads; it starts no
\* upload loop, downloads no bundle, uploads no entry and no jsenv.js, never
\* returns ErrTimeout, and when it passes the commit it has uploaded one
\* meta.json per domain, published the invalidation unless skip_invalidation,
\* and made itself the project's active deployment.
C17_RepublishMetadataOnly ==
    [][\A j \in Jobs : Republish(j) =>
          /\ gstate[j] = "none"
          /\ \A a \in DOMAIN events[j] :
                ~IsEntry(events[j][a]) /\ events[j][a][1] \notin {"download", "jsenv"}
          /\ pc[j] = "check" /\ pc'[j] # "check" => pc'[j] = "meta"
          /\ ~Returns(j, ErrTimeout)
          /\ pc[j] = "commit" /\ pc'[j] = "track" =>
                /\ \A dom \in 1..NumDomains(proj(j)) :
                      \E a \in DOMAIN events[j] : events[j][a] = <<"meta", dom>>
                /\ ~d[j].skipInval <=>
                      \E a \in DOMAIN events[j] : events[j][a][1] = "publish"
                /\ active'[proj(j)] = d[j].id
                /\ deplState'[d[j].id] = StateDeployed]_vars

\* deployment 1 was deployed and then deployment 2 was republished: it is the
\* active one again
C17_Republished ==
    /\ last = [id |-> 2, result |-> Success]
    /\ deplState[1] = StateDeployed
    /\ deployedAt[2] > deployedAt[1]
    /\ active[1] = 2

\* the deployed deployments of project p that are not soft-deleted
Kept(st, del, p) ==
    {x \in Depls : ProjectOf(x) = p /\ st[x] = StateDeployed /\ ~del[x]}

\* the three writes of the transaction of job j are visible after the step
CommitVisible(j) ==
    /\ deplState'[d[j].id] = StateDeployed
    /\ deployedAt'[d[j].id] > deployedAt[d[j].id]
    /\ active'[proj(j)] = d[j].id
    /\ \A x \in Depls : deleted[x] => deleted'[x]
    /\ IF MaxDeploysKept(proj(j)) > 0
          THEN Cardinality(Kept(deplState', deleted', proj(j)))
                   <= MaxDeploysKept(proj(j))
          ELSE deleted' = deleted

\* C18: the commit is atomic.  A job leaves the transaction either with the
\* deployment deployed, the project's active_deployment_id set to it and the
\* soft deletion done (only when max_deploys_kept > 0), or by returning the
\* error with the store as it was; and no step makes one of the three
\* visible without the others.
C18_CommitAtomic ==
    [][/\ \A j \in Jobs : pc[j] = "commit" /\ pc'[j] # "commit" =>
             \/ pc'[j] = "track" /\ CommitVisible(j)
             \/ Returns(j, ErrCommit) /\ store' = store
       /\ \A j \in Jobs : pc[j] = "begin" /\ pc'[j] # "begin" => store' = store
       /\ deployedAt' # deployedAt \/ active' # active \/ deleted' # deleted =>
             \E j \in Jobs : pc[j] = "commit" /\ pc'[j] = "track"
                             /\ CommitVisible(j)]_vars

\* deployment 5, of the project that keeps every deployment, was committed
\* and nothing was soft-deleted; then the transaction of deployment 1 failed
\* and nothing of it is visible
C18_CommittedThenRolledBack ==
    /\ deployedAt[5] > InitialDeployedAt(5) /\ active[2] = 5
    /\ \A x \in Depls : ~deleted[x]
    /\ last = [id |-> 1, result |-> ErrCommit]
    /\ deplState[1] = StatePendingDeploy /\ active[1] = 2

\* an abandoned goroutine takes a step in this step
AbandonedStep == abandoned' # abandoned /\ pc' = pc

\* what an abandoned goroutine does changes neither a job, nor the result
\* of a Work that returned, nor a stored row, nor a lock
C19_ErrorsDiscarded ==
    [][AbandonedStep => UNCHANGED <<store, locked, last, pc, events>>]_vars

\* C19: after the timeout the abandoned upload goroutine goes on only
\* briefly: whenever goroutines are abandoned, eventually none is left, each
\* of them having returned rather than staying blocked on the error channel.
C19_AbandonedTerminates == (abandoned # {}) ~> (abandoned = {})

\* an abandoned goroutine is blocked sending its error on errCh, from which
\* nobody receives once Work has returned
C19_BlockedForever == \E g \in abandoned : g.state = "sending"

\* C20: the timeout does not cancel the upload loop.  When Work returns
\* ErrTimeout while its goroutine is running, the goroutine goes on from the
\* entry it had reached, and it can upload webroot entries of the deployment
\* after the deployment was marked deploy_failed, the lock released and Work
\* returned.
C20_TimeoutDoesNotCancel ==
    [][\A j \in Jobs : Returns(j, ErrTimeout) /\ gstate[j] = "running" =>
          [id |-> d[j].id, state |-> "running", pos |-> gpos[j], log |-> <<>>]
              \in abandoned']_vars

\* no Work is running, the last one returned ErrTimeout for a deployment that
\* is deploy_failed and whose project is unlocked, and its goroutine has
\* uploaded a webroot entry since
C20_UploadAfterReturn ==
    /\ \A j \in Jobs : pc[j] = "idle"
    /\ last.result = ErrTimeout
    /\ deplState[last.id] = StateDeployFailed
    /\ ~locked[ProjectOf(last.id)]
    /\ \E g \in abandoned :
          /\ g.id = last.id /\ g.state = "running"
          /\ g.log # <<>> /\ \A a \in DOMAIN g.log : IsEntry(g.log[a])

\* the entry is an HTML page by its extension
IsHtml(e) == e.ext \in {".html", ".htm"}

\* C21: an entry goes through the watermark injector if and only if the
\* project has watermark set, the content type of its extension is text/html
\* and its size is at most MaxFileSizeToWatermark.  Every other valid entry
\* is uploaded as it is; an entry whose injection fails is skipped; only a
\* failed upload is an error.
C21_InjectedIffEligible ==
    routed # "" /\ ~hdr.dir /\ hdr.valid =>
        IF watermark /\ IsHtml(hdr) /\ hdr.size <= 5000000
           THEN routed \in {"entry watermarked", "skip", "error"}
           ELSE routed \in {"entry", "error"}

\* an HTML page of 6,000,000 bytes of a watermarked project was uploaded as
\* it is
C21_LargeHtmlVerbatim ==
    /\ watermark /\ ~hdr.dir /\ hdr.valid
    /\ hdr.ext = ".html" /\ hdr.size = 6000000
    /\ routed = "entry"

\* job j is past the state precondition of lines 111-122
PastPrecondition(j) ==
    pc[j] \in {"prepare", "select", "jsenv", "meta", "publish", "begin",
               "commit", "track"}

\* C22: a job with skip_webroot_upload == false gets past the precondition
\* only if the stored state of its deployment was not deployed when it took
\* the project lock: of the deliveries of one deployment, the second finds it
\* deployed and neither uploads the webroot nor commits.
C22_PreconditionOnStoredState ==
    \A j \in Jobs :
        PastPrecondition(j) /\ ~d[j].skipWebroot => atLock[j].state # StateDeployed

====
